---- MODULE Spec2Model ----
(***************************************************************************)
(* The Iov registry (IovCollection) of clsp-player and the part of a       *)
(* session (Iov) the registry drives.                                      *)
(*                                                                         *)
(* Spec         the registry under its public operations: create, add,     *)
(*              has/get, remove, destroy, with Iov.factory as the way a    *)
(*              caller makes the session it passes to add.                 *)
(* SpecHandlers the bodies of the event handlers that create writes        *)
(*              (IovCollection.js 67-113) and of #retry (120-149), run for *)
(*              a session that is registered, beside Iov.factory, add,     *)
(*              remove and changeSrc.  Under Spec no handler ever runs:    *)
(*              create throws at line 79, before it adds the session, so   *)
(*              the three retry handlers are never installed and no        *)
(*              session a caller holds has the fourth.                     *)
(* SpecIov      one session (Iov) under changeSrc, stop, restart, destroy  *)
(*              and its visibility and connection handlers, with the       *)
(*              player collection it drives; SpecIovFair adds that every   *)
(*              await of the session ends, each on its own.                *)
(* SpecEmitter  EventEmitter.on and its destruction.                       *)
(* SpecElements the container and video elements of a session, from        *)
(*              #initializeElements to #uninitializeElements.              *)
(*                                                                         *)
(* One action is one synchronous run of code between two awaits.  The only *)
(* await that takes time is `await iov.destroy()` in remove (line 238); an *)
(* await of an already settled promise is run through in the same action.  *)
(***************************************************************************)
EXTENDS Integers, Sequences, FiniteSets, TLC

\* ------------------------------------------------------------------ bounds
MaxIovCount == 2    \* create() calls, i.e. the largest totalIovCount
MaxIovs == 3        \* Iov objects ever constructed
MaxId == 2          \* ids a caller passes to Iov.factory: 1..MaxId

\* ------------------------------------------------------------------ values
Undefined == "undefined"

\* surface configs passed to create / Iov.factory; "noElement" makes the Iov
\* constructor throw
SurfaceConfigs == {"video1", "noElement"}
ValidConfig(config) == config # "noElement"

Urls == {"urlA", "urlB"}

Ids == 1..(IF MaxId > MaxIovCount THEN MaxId ELSE MaxIovCount)

\* IovPlayer.events, as far as Iov.events uses it
IovPlayerEvents ==
  [ FIRST_FRAME_SHOWN |-> "firstFrameShown",
    VIDEO_RECEIVED |-> "videoReceived",
    VIDEO_INFO_RECEIVED |-> "videoInfoReceived",
    IFRAME_DESTROYED_EXTERNALLY |-> "iframeDestroyedExternally" ]

\* static events of Iov
IovEvents ==
  [ METRIC |-> "metric",
    FIRST_FRAME_SHOWN |-> IovPlayerEvents.FIRST_FRAME_SHOWN,
    VIDEO_RECEIVED |-> IovPlayerEvents.VIDEO_RECEIVED,
    VIDEO_INFO_RECEIVED |-> IovPlayerEvents.VIDEO_INFO_RECEIVED,
    IFRAME_DESTROYED_EXTERNALLY |-> IovPlayerEvents.IFRAME_DESTROYED_EXTERNALLY ]

\* the expression Iov.events.<key>: undefined for a key the object lacks
IovEvent(key) == IF key \in DOMAIN IovEvents THEN IovEvents[key] ELSE Undefined

\* EventEmitter.on: the name must be a value of the class's events (the
\* handler is always given by create)
onAccepts(eventName) == eventName \in {IovEvents[k] : k \in DOMAIN IovEvents}

\* the events create registers a handler for, in the order it does
HandlerKeys ==
  << "IFRAME_DESTROYED_EXTERNALLY", "REINITIALZE_ERROR",
     "NO_STREAM_CONFIGURATION", "RETRY_ERROR" >>

\* the events whose handler calls #retry
RetryKeys == {"REINITIALZE_ERROR", "NO_STREAM_CONFIGURATION", "RETRY_ERROR"}

\* ------------------------------------------------------------------- state
VARIABLES
  totalIovCount,      \* module counter of IovCollection.js
  objs,               \* the Iov objects constructed so far, by construction order
  iovs,               \* this.iovs: id -> index in objs, 0 = no such property
  pendingRemoval,     \* this.pendingRemoval: the ids whose property is true
  isDestroyed,        \* this.isDestroyed
  isDestroyComplete,  \* this.isDestroyComplete
  nulled,             \* this.iovs and this.pendingRemoval were set to null
  removing,           \* the remove() calls suspended in `await iov.destroy()`
  destroyKeys,        \* keys the for-in of the running destroy() has yet to visit
  last,               \* what the step just taken did and returned
  session,            \* one Iov with its player collection (SpecIov)
  emitter,            \* one EventEmitter (SpecEmitter)
  dom                 \* the elements of one Iov (SpecElements)

\* the registry
registryVars ==
  << totalIovCount, objs, iovs, pendingRemoval, isDestroyed, isDestroyComplete,
     nulled, removing, destroyKeys, last >>

\* a single component on its own
componentVars == << session, emitter, dom >>

vars == << registryVars, componentVars >>

\* the part of the state the synchronous helpers below work on
Cur ==
  [ count |-> totalIovCount, objs |-> objs, iovs |-> iovs, pend |-> pendingRemoval ]

Commit(S) ==
  /\ totalIovCount' = S.count
  /\ objs' = S.objs
  /\ iovs' = S.iovs
  /\ pendingRemoval' = S.pend

\* op: the operation; outcome: how it ended ("awaiting": it is suspended).
\* The other fields are read only for the op named:
\*   create   obj: the session constructed (0: none); valid: the config
\*            was a valid one; registryDestroyed: this.isDestroyed at the call
\*   remove   id: its argument; obj: the session whose destroy() it called
\*            (0: none); present: has(id) at the call; changed: iovs or
\*            pendingRemoval were written; again: destroy() had been called
\*            on obj before
\*   destroy  complete: isDestroyComplete at the return; allDestroyed: every
\*            session ever registered was destroyed completely at the return
\*   iframe, retry   obj: the session iov of the handler; id: iov.id;
\*            present: at the start, get(id) was iov (iframe), has(id) was
\*            true (retry); target: the target read; created: the session
\*            create() constructed in this step; changeSrcOn,
\*            changeSrcTarget: the changeSrc call of this step
NoOp ==
  [ op |-> "none", outcome |-> "none", id |-> 0, obj |-> 0,
    valid |-> FALSE, registryDestroyed |-> FALSE,
    present |-> FALSE, changed |-> FALSE, again |-> FALSE,
    complete |-> FALSE, allDestroyed |-> FALSE,
    target |-> Undefined, created |-> 0, changeSrcOn |-> 0,
    changeSrcTarget |-> Undefined ]

InitRegistry ==
  /\ totalIovCount = 0
  /\ objs = << >>
  /\ iovs = [id \in Ids |-> 0]
  /\ pendingRemoval = {}
  /\ isDestroyed = FALSE
  /\ isDestroyComplete = FALSE
  /\ nulled = FALSE
  /\ removing = {}
  /\ destroyKeys = {}
  /\ last = NoOp

\* the components not under study are left as they are constructed
InitComponents ==
  /\ session = "idle"
  /\ emitter = "idle"
  /\ dom = "idle"

Init == InitRegistry /\ InitComponents

\* ------------------------------------------------------- the Iov (session)
\* new Iov(logId, id, config); listeners are the handlers the registry has
\* registered on it; registered and retryCreates are history: whether it was
\* ever put into this.iovs, the create() calls made by #retry runs for it
NewIov(id, config, origin, listeners) ==
  [ id |-> id, config |-> config, origin |-> origin, listeners |-> listeners,
    streamConfiguration |-> Undefined,
    isDestroyed |-> FALSE, isDestroyComplete |-> FALSE,
    registered |-> FALSE, retryCreates |-> 0 ]

\* Iov never assigns pendingChangeSrcStreamConfiguration
pendingChangeSrcStreamConfiguration(iov) == Undefined

\* iov.pendingChangeSrcStreamConfiguration || iov.streamConfiguration
LastTarget(iov) ==
  IF pendingChangeSrcStreamConfiguration(iov) # Undefined
    THEN pendingChangeSrcStreamConfiguration(iov)
    ELSE iov.streamConfiguration

\* changeSrc up to the assignment of streamConfiguration
changeSrc(S, o, url) ==
  IF S.objs[o].isDestroyed THEN [S |-> S, error |-> "none"]
  ELSE IF url = Undefined THEN [S |-> S, error |-> "MissingUrl"]
  ELSE [S |-> [S EXCEPT !.objs[o].streamConfiguration = url], error |-> "none"]

\* iov.destroy() up to its await: the first call starts the teardown, a
\* later call resolves at once
iovDestroy(S, o) ==
  IF S.objs[o].isDestroyed THEN [S |-> S, awaiting |-> FALSE]
  ELSE [S |-> [S EXCEPT !.objs[o].isDestroyed = TRUE], awaiting |-> TRUE]

\* the teardown of iov.destroy() ends: normally (the listeners are removed,
\* isDestroyComplete is set) or by throwing; streamConfiguration is cleared
\* before anything of _destroy that is not wrapped in a try
iovDestroySettles(S, o, ok) ==
  IF ok
    THEN [S EXCEPT !.objs[o].isDestroyComplete = TRUE, !.objs[o].listeners = {},
                   !.objs[o].streamConfiguration = Undefined]
    ELSE [S EXCEPT !.objs[o].streamConfiguration = Undefined]

\* ------------------------------------------------------------ the registry
has(S, id) ==
  IF id = 0 THEN FALSE
  ELSE IF id \in S.pend THEN FALSE
  ELSE S.iovs[id] # 0

\* null is 0
get(S, id) == IF ~has(S, id) THEN 0 ELSE S.iovs[id]

\* has() reads this.pendingRemoval[id]: a TypeError once it is null
hasThrows(id) == nulled /\ id # 0

add(S, o) ==
  LET id == S.objs[o].id IN
  IF id = 0 THEN [S |-> S, error |-> "NoId"]
  ELSE IF hasThrows(id) THEN [S |-> S, error |-> "TypeError"]
  ELSE IF has(S, id) THEN [S |-> S, error |-> "PreviouslyUsedId"]
  ELSE [S |-> [S EXCEPT !.iovs[id] = o, !.objs[o].registered = TRUE],
        error |-> "none"]

\* index in HandlerKeys of the first iov.on(...) of create that throws, 0 if none
FirstRejected ==
  LET bad == {i \in 1..Len(HandlerKeys) : ~onAccepts(IovEvent(HandlerKeys[i]))}
  IN IF bad = {} THEN 0 ELSE CHOOSE i \in bad : \A j \in bad : i <= j

\* the handlers create has registered when it returns or throws
RegisteredKeys ==
  {HandlerKeys[i] : i \in {j \in 1..Len(HandlerKeys) : FirstRejected = 0 \/ j < FirstRejected}}

create(S, config) ==
  LET id == S.count + 1
      S1 == [S EXCEPT !.count = id]
  IN IF ~ValidConfig(config)
       THEN [S |-> S1, error |-> "ConstructError", obj |-> 0, id |-> id]
       ELSE LET S2 == [S1 EXCEPT !.objs = Append(@, NewIov(id, config, "create", RegisteredKeys))]
                o == Len(S2.objs)
            IN IF FirstRejected # 0
                 THEN [S |-> S2, error |-> "UnknownEvent", obj |-> o, id |-> id]
                 ELSE LET A == add(S2, o)
                      IN [S |-> A.S, error |-> A.error, obj |-> o, id |-> id]

\* finally { delete this.pendingRemoval[id] }
removeFinally(S, id) == [S EXCEPT !.pend = @ \ {id}]

\* remove(id) up to `await iov.destroy()`; when that promise is already
\* settled, through to the end
removeSync(S, id) ==
  LET iov == get(S, id) IN
  IF iov = 0 THEN [S |-> S, awaiting |-> FALSE, obj |-> 0]
  ELSE LET S1 == [S EXCEPT !.pend = @ \cup {id}, !.iovs[id] = 0]
           D == iovDestroy(S1, iov)
       IN IF D.awaiting
            THEN [S |-> D.S, awaiting |-> TRUE, obj |-> iov]
            ELSE [S |-> removeFinally(D.S, id), awaiting |-> FALSE, obj |-> iov]

\* remove(id) from the end of `await iov.destroy()`: return or catch, then
\* finally; `delete this.pendingRemoval[id]` is a TypeError once
\* pendingRemoval is null, and that rejects remove
removeSettles(S, r, ok) ==
  LET S1 == iovDestroySettles(S, r.obj, ok) IN
  IF nulled THEN [S |-> S1, outcome |-> "rejected"]
  ELSE [S |-> removeFinally(S1, r.id), outcome |-> "resolved"]

\* a remove(id) suspended on the teardown of obj; caller is who awaits it;
\* iov and target are the locals of the #retry or handler run that called
Awaiting(id, obj, caller, iov, target) ==
  [ id |-> id, obj |-> obj, caller |-> caller, iov |-> iov, target |-> target ]

\* room left beside the create calls that suspended #retry runs will make
Reserved == Cardinality({r \in removing : r.caller = "retry"})
RoomForIov == Len(objs) + Reserved < MaxIovs
RoomForCreate == totalIovCount + Reserved < MaxIovCount

\* ----------------------------------------------------------------- actions
\* collection.create(config)
Create(config) ==
  /\ RoomForCreate
  /\ ValidConfig(config) => RoomForIov
  /\ LET C == create(Cur, config) IN
       /\ Commit(C.S)
       /\ last' = [NoOp EXCEPT !.op = "create",
                               !.outcome = IF C.error = "none" THEN "returned" ELSE C.error,
                               !.obj = C.obj, !.valid = ValidConfig(config),
                               !.registryDestroyed = isDestroyed]
  /\ UNCHANGED << isDestroyed, isDestroyComplete, nulled, removing, destroyKeys >>

\* a caller's Iov.factory(logId, id, config)
Construct(id, config) ==
  /\ RoomForIov
  /\ ValidConfig(config)
  /\ objs' = Append(objs, NewIov(id, config, "factory", {}))
  /\ last' = NoOp
  /\ UNCHANGED << totalIovCount, iovs, pendingRemoval, isDestroyed, isDestroyComplete,
                  nulled, removing, destroyKeys >>

\* collection.add(iov) with an Iov the caller holds
Add(o) ==
  /\ objs[o].origin = "factory"
  /\ Commit(add(Cur, o).S)
  /\ last' = NoOp
  /\ UNCHANGED << isDestroyed, isDestroyComplete, nulled, removing, destroyKeys >>

\* collection.remove(id) by a caller, up to its await
Remove(id) ==
  /\ IF hasThrows(id)
       THEN /\ last' = [NoOp EXCEPT !.op = "remove", !.outcome = "rejected", !.id = id]
            /\ UNCHANGED << totalIovCount, objs, iovs, pendingRemoval, removing >>
       ELSE LET R == removeSync(Cur, id) IN
            /\ Commit(R.S)
            /\ removing' = IF R.awaiting
                             THEN removing \cup {Awaiting(id, R.obj, "api", 0, Undefined)}
                             ELSE removing
            /\ last' = [NoOp EXCEPT !.op = "remove",
                                    !.outcome = IF R.awaiting THEN "awaiting" ELSE "resolved",
                                    !.id = id, !.obj = R.obj,
                                    !.present = has(Cur, id),
                                    !.again = (R.obj # 0 /\ ~R.awaiting),
                                    !.changed = (R.S.iovs # iovs \/ R.S.pend # pendingRemoval)]
  /\ UNCHANGED << isDestroyed, isDestroyComplete, nulled, destroyKeys >>

\* the session's teardown ends and the caller's remove(id) runs to its end
RemoveSettles(r, ok) ==
  /\ r.caller = "api"
  /\ LET T == removeSettles(Cur, r, ok) IN
       /\ Commit(T.S)
       /\ last' = [NoOp EXCEPT !.op = "remove", !.outcome = T.outcome,
                               !.id = r.id, !.obj = r.obj,
                               !.present = TRUE, !.changed = TRUE]
  /\ removing' = removing \ {r}
  /\ UNCHANGED << isDestroyed, isDestroyComplete, nulled, destroyKeys >>

AllDestroyed(S) ==
  \A o \in 1..Len(S.objs) : S.objs[o].registered => S.objs[o].isDestroyComplete

\* the for-in of destroy() from the keys it has yet to visit, to its next
\* `await this.remove(id)` that suspends: integer keys come in ascending
\* order, a key deleted before its turn is skipped
RECURSIVE destroyLoop(_, _)
destroyLoop(S, keys) ==
  IF keys = {} THEN [S |-> S, keys |-> {}, awaiting |-> FALSE, id |-> 0, obj |-> 0]
  ELSE LET k == CHOOSE x \in keys : \A y \in keys : x <= y
           rest == keys \ {k}
       IN IF S.iovs[k] = 0 THEN destroyLoop(S, rest)
          ELSE LET R == removeSync(S, k) IN
               IF R.awaiting
                 THEN [S |-> R.S, keys |-> rest, awaiting |-> TRUE, id |-> k, obj |-> R.obj]
                 ELSE destroyLoop(R.S, rest)

\* destroy() from a point in its loop to its next suspension or to its end
destroyRun(S, keys, others) ==
  LET L == destroyLoop(S, keys) IN
  IF L.awaiting
    THEN /\ Commit(L.S)
         /\ destroyKeys' = L.keys
         /\ removing' = others \cup {Awaiting(L.id, L.obj, "destroy", 0, Undefined)}
         /\ last' = [NoOp EXCEPT !.op = "destroy", !.outcome = "awaiting"]
         /\ UNCHANGED << isDestroyComplete, nulled >>
    ELSE /\ Commit([L.S EXCEPT !.iovs = [id \in Ids |-> 0], !.pend = {}])
         /\ nulled' = TRUE
         /\ isDestroyComplete' = TRUE
         /\ destroyKeys' = {}
         /\ removing' = others
         /\ last' = [NoOp EXCEPT !.op = "destroy", !.outcome = "returned",
                                 !.complete = TRUE, !.allDestroyed = AllDestroyed(L.S)]

\* collection.destroy() by a caller, up to its first suspension
Destroy ==
  IF isDestroyed
    THEN /\ last' = [NoOp EXCEPT !.op = "destroy", !.outcome = "returned",
                                 !.complete = isDestroyComplete,
                                 !.allDestroyed = AllDestroyed(Cur)]
         /\ UNCHANGED << totalIovCount, objs, iovs, pendingRemoval, isDestroyed,
                         isDestroyComplete, nulled, removing, destroyKeys >>
    ELSE /\ isDestroyed' = TRUE
         /\ destroyRun(Cur, {id \in Ids : iovs[id] # 0}, removing)

\* the teardown awaited by destroy()'s remove(id) ends; destroy() goes on
DestroyResumes(r, ok) ==
  /\ r.caller = "destroy"
  /\ destroyRun(removeSettles(Cur, r, ok).S, destroyKeys, removing \ {r})
  /\ UNCHANGED isDestroyed

Next ==
  \/ \E config \in SurfaceConfigs : Create(config) /\ UNCHANGED componentVars
  \/ \E id \in 1..MaxId, config \in SurfaceConfigs : Construct(id, config) /\ UNCHANGED componentVars
  \/ \E o \in 1..Len(objs) : Add(o) /\ UNCHANGED componentVars
  \/ \E id \in 0..MaxId : Remove(id) /\ UNCHANGED componentVars
  \/ \E r \in removing, ok \in BOOLEAN : RemoveSettles(r, ok) /\ UNCHANGED componentVars
  \/ Destroy /\ UNCHANGED componentVars
  \/ \E r \in removing, ok \in BOOLEAN : DestroyResumes(r, ok) /\ UNCHANGED componentVars

Spec == Init /\ [][Next]_vars

\* ------------------------------------------------- the handlers of create
\* iov.changeSrc(url) by a caller
ChangeSrc(o, url) ==
  /\ objs[o].origin = "factory"
  /\ Commit(changeSrc(Cur, o, url).S)
  /\ last' = NoOp
  /\ UNCHANGED << isDestroyed, isDestroyComplete, nulled, removing, destroyKeys >>

\* session o can emit an event to the registry's handlers: it was registered
\* (only a session a caller got hold of is ever given a stream to play) and
\* its emitter has its listeners (until its teardown has removed them)
CanEmit(o) == objs[o].registered /\ ~objs[o].isDestroyComplete

\* what a handler run has done when it ends
Handled(op, o, present, target, R) ==
  [NoOp EXCEPT !.op = op, !.outcome = "done", !.id = objs[o].id, !.obj = o,
               !.present = present, !.target = target, !.created = R.created,
               !.changeSrcOn = R.changeSrcOn, !.changeSrcTarget = R.changeSrcTarget]

\* #retry after its `await this.remove(id)`: create, then changeSrc on the
\* new session; an error of create leaves #retry, an error of changeSrc is
\* caught
retryAfterRemove(S, o, target) ==
  LET C == create(S, S.objs[o].config)
      S1 == [C.S EXCEPT !.objs[o].retryCreates = @ + 1]
  IN IF C.error # "none"
       THEN [S |-> S1, created |-> C.obj, changeSrcOn |-> 0, changeSrcTarget |-> Undefined]
       ELSE [S |-> changeSrc(S1, C.obj, target).S, created |-> C.obj,
             changeSrcOn |-> C.obj, changeSrcTarget |-> target]

\* the IFRAME_DESTROYED_EXTERNALLY handler after its `await this.remove(iov.id)`
iframeAfterRemove(S, o) ==
  [S |-> S, created |-> 0, changeSrcOn |-> 0, changeSrcTarget |-> Undefined]

\* the IFRAME_DESTROYED_EXTERNALLY handler of session o, up to its await
IframeHandler(o) ==
  /\ CanEmit(o)
  /\ IF hasThrows(objs[o].id)
       THEN /\ last' = [NoOp EXCEPT !.op = "iframe", !.outcome = "TypeError",
                                    !.id = objs[o].id, !.obj = o]
            /\ UNCHANGED << totalIovCount, objs, iovs, pendingRemoval, removing >>
       ELSE LET R == removeSync(Cur, objs[o].id) IN
            IF R.awaiting
              THEN /\ Commit(R.S)
                   /\ removing' = removing \cup
                                  {Awaiting(objs[o].id, R.obj, "iframe", o, Undefined)}
                   /\ last' = [NoOp EXCEPT !.op = "iframe", !.outcome = "awaiting",
                                           !.id = objs[o].id, !.obj = o,
                                           !.present = (R.obj = o)]
              ELSE LET F == iframeAfterRemove(R.S, o) IN
                   /\ Commit(F.S)
                   /\ last' = Handled("iframe", o, get(Cur, objs[o].id) = o, Undefined, F)
                   /\ UNCHANGED removing
  /\ UNCHANGED << isDestroyed, isDestroyComplete, nulled, destroyKeys >>

\* the teardown awaited by the handler's remove ends; the handler ends
IframeHandlerResumes(r, ok) ==
  /\ r.caller = "iframe"
  /\ LET F == iframeAfterRemove(removeSettles(Cur, r, ok).S, r.iov) IN
       /\ Commit(F.S)
       /\ last' = Handled("iframe", r.iov, r.obj = r.iov, Undefined, F)
  /\ removing' = removing \ {r}
  /\ UNCHANGED << isDestroyed, isDestroyComplete, nulled, destroyKeys >>

\* #retry(iov, videoElementId) as the handler of event key of session o calls
\* it, up to its await
RetryHandler(o, key) ==
  /\ CanEmit(o)
  /\ IF hasThrows(objs[o].id)
       THEN /\ last' = [NoOp EXCEPT !.op = "retry", !.outcome = "TypeError",
                                    !.id = objs[o].id, !.obj = o]
            /\ UNCHANGED << totalIovCount, objs, iovs, pendingRemoval, removing >>
       ELSE IF ~has(Cur, objs[o].id)
       THEN /\ last' = [NoOp EXCEPT !.op = "retry", !.outcome = "done",
                                    !.id = objs[o].id, !.obj = o]
            /\ UNCHANGED << totalIovCount, objs, iovs, pendingRemoval, removing >>
       ELSE /\ RoomForCreate
            /\ RoomForIov
            /\ LET target == LastTarget(objs[o])
                   R == removeSync(Cur, objs[o].id)
               IN IF R.awaiting
                    THEN /\ Commit(R.S)
                         /\ removing' = removing \cup
                                        {Awaiting(objs[o].id, R.obj, "retry", o, target)}
                         /\ last' = [NoOp EXCEPT !.op = "retry", !.outcome = "awaiting",
                                                 !.id = objs[o].id, !.obj = o,
                                                 !.present = TRUE, !.target = target]
                    ELSE LET F == retryAfterRemove(R.S, o, target) IN
                         /\ Commit(F.S)
                         /\ last' = Handled("retry", o, TRUE, target, F)
                         /\ UNCHANGED removing
  /\ UNCHANGED << isDestroyed, isDestroyComplete, nulled, destroyKeys >>

\* the teardown awaited by #retry's remove ends; #retry runs to its end
RetryResumes(r, ok) ==
  /\ r.caller = "retry"
  /\ LET F == retryAfterRemove(removeSettles(Cur, r, ok).S, r.iov, r.target) IN
       /\ Commit(F.S)
       /\ last' = Handled("retry", r.iov, TRUE, r.target, F)
  /\ removing' = removing \ {r}
  /\ UNCHANGED << isDestroyed, isDestroyComplete, nulled, destroyKeys >>

\* all handlers beside add, remove and changeSrc; create is called by #retry,
\* and the registry is not destroyed: destroy() is left to Spec
NextHandlers ==
  \/ \E id \in 1..MaxId, config \in SurfaceConfigs : Construct(id, config) /\ UNCHANGED componentVars
  \/ \E o \in 1..Len(objs) : Add(o) /\ UNCHANGED componentVars
  \/ \E id \in 0..MaxId : Remove(id) /\ UNCHANGED componentVars
  \/ \E r \in removing, ok \in BOOLEAN : RemoveSettles(r, ok) /\ UNCHANGED componentVars
  \/ \E o \in 1..Len(objs), url \in Urls : ChangeSrc(o, url) /\ UNCHANGED componentVars
  \/ \E o \in 1..Len(objs) : IframeHandler(o) /\ UNCHANGED componentVars
  \/ \E r \in removing, ok \in BOOLEAN : IframeHandlerResumes(r, ok) /\ UNCHANGED componentVars
  \/ \E o \in 1..Len(objs), key \in RetryKeys : RetryHandler(o, key) /\ UNCHANGED componentVars
  \/ \E r \in removing, ok \in BOOLEAN : RetryResumes(r, ok) /\ UNCHANGED componentVars

SpecHandlers == Init /\ [][NextHandlers]_vars

\* ----------------------------------------------------- one Iov on its own
\* SpecIov: one Iov (Iov.js) with its IovPlayerCollection, under changeSrc,
\* stop, restart, destroy, the visibility and connection handlers, and the
\* events of the players.  A player is
\*   alive  "live"; "retiring": a later player has shown its first frame and
\*          the collection has scheduled this one for destruction;
\*          "stopping": a removeAll() that is in flight tears it down; "dead"
\*   wait   the changeSrc call that created it: "creating" (in `await
\*          create`), "waiting" (for FIRST_FRAME_SHOWN), "sleeping" (in
\*          sleepSeconds), "resolved", "rejected"
MaxPlayers == 3

\* the call or event of the step just taken: op, how it ended ("awaiting":
\* it is suspended), whether it changed the session, the player it is about,
\* the argument of changeSrc, the environment event whose handler made the
\* call ("online", "offline", "visible", "hidden"), and how the stop() that
\* restart awaits ended
NoCall ==
  [ op |-> "none", outcome |-> "none", changed |-> FALSE, p |-> 0, arg |-> Undefined,
    event |-> "none", stop |-> "none" ]

\* new Iov(...) with the document visible
NewSession ==
  [ streamConfiguration |-> Undefined,
    isDestroyed |-> FALSE, isDestroyComplete |-> FALSE, isStopping |-> FALSE,
    hidden |-> FALSE,        \* utils.isDocumentHidden()
    listening |-> TRUE,      \* the document and window listeners are registered
    players |-> << >>,       \* the players of iovPlayerCollection, by id
    stopFor |-> "none",      \* who awaits the removeAll() in flight
    destroyPhase |-> "none", \* where _destroy is
    elements |-> TRUE,       \* #initializeElements has run, #uninitializeElements not
    events |-> TRUE,         \* this.events holds the emitter and its listeners
    last |-> NoCall ]

InitIov ==
  /\ InitRegistry
  /\ session = NewSession
  /\ emitter = "idle"
  /\ dom = "idle"

NewPlayer == [ alive |-> "live", wait |-> "creating" ]

LivePlayers(s) == {p \in 1..Len(s.players) : s.players[p].alive # "dead"}

\* what the session is apart from the record of the last call
IovState(s) == [s EXCEPT !.last = NoCall]

\* the record of a call of op that made s0 into s and ended with outcome
Called(s0, s, op, outcome, p) ==
  [ op |-> op, outcome |-> outcome, changed |-> (IovState(s) # IovState(s0)), p |-> p,
    arg |-> Undefined, event |-> "none", stop |-> "none" ]

\* iovPlayerCollection.create(...): a player is constructed and starts to play
collectionCreate(s) == [s EXCEPT !.players = Append(@, NewPlayer)]

\* iovPlayerCollection.removeAll() is called: every player is being torn down
collectionRemoveAll(s) ==
  [s EXCEPT !.players =
     [p \in 1..Len(s.players) |->
        IF s.players[p].alive \in {"live", "retiring"}
          THEN [s.players[p] EXCEPT !.alive = "stopping"]
          ELSE s.players[p]]]

\* removeAll() settles: the players it tore down are dead, or, when it
\* fails, are what they were
collectionRemoveAllSettles(s, ok) ==
  [s EXCEPT !.players =
     [p \in 1..Len(s.players) |->
        IF s.players[p].alive = "stopping"
          THEN [s.players[p] EXCEPT !.alive = IF ok THEN "dead" ELSE "live"]
          ELSE s.players[p]]]

\* the collection's handoff: the players before p are scheduled for destruction
collectionHandoff(s, p) ==
  [s EXCEPT !.players =
     [q \in 1..Len(s.players) |->
        IF q < p /\ s.players[q].alive = "live"
          THEN [s.players[q] EXCEPT !.alive = "retiring"]
          ELSE s.players[q]]]

\* iovPlayerCollection.destroy() settles: every player is dead
collectionDestroySettles(s) ==
  [s EXCEPT !.players =
     [p \in 1..Len(s.players) |-> [s.players[p] EXCEPT !.alive = "dead"]]]

\* StreamConfiguration.fromUrl(url): the configuration a url parses to
fromUrl(url) == IF url = "urlA" THEN "configA" ELSE "configB"

StreamConfigurations == {fromUrl(url) : url \in Urls}

isStreamConfiguration(target) == target \in StreamConfigurations

\* what changeSrc keeps of its argument: a configuration as it is, a url parsed
toStreamConfiguration(target) ==
  IF isStreamConfiguration(target) THEN target ELSE fromUrl(target)

iovChangeSrc_hiddenFirst(s, url) ==
  IF s.isDestroyed THEN [s |-> s, outcome |-> "returned", p |-> 0]
  ELSE IF url = Undefined THEN [s |-> s, outcome |-> "MissingUrl", p |-> 0]
  ELSE IF s.hidden THEN [s |-> s, outcome |-> "returned", p |-> 0]
  ELSE [s |-> collectionCreate([s EXCEPT !.streamConfiguration = toStreamConfiguration(url)]),
        outcome |-> "awaiting", p |-> Len(s.players) + 1]

\* changeSrc(url) up to `await this.iovPlayerCollection.create(...)`
iovChangeSrc(s, url) ==
  IF s.isDestroyed THEN [s |-> s, outcome |-> "returned", p |-> 0]
  ELSE IF url = Undefined THEN [s |-> s, outcome |-> "MissingUrl", p |-> 0]
  ELSE LET s1 == [s EXCEPT !.streamConfiguration = toStreamConfiguration(url)] IN
       IF s1.hidden THEN [s |-> s1, outcome |-> "returned", p |-> 0]
       ELSE [s |-> collectionCreate(s1), outcome |-> "awaiting",
             p |-> Len(s1.players) + 1]

firstFrameListener_anyId(s, p, id) ==
  IF s.players[p].wait = "waiting"
    THEN [s EXCEPT !.players[p].wait = "sleeping"]
    ELSE s

\* the listener changeSrc registers for FIRST_FRAME_SHOWN, called with { id }
\* for the call that created player p: it goes on only for its own player
firstFrameListener(s, p, id) ==
  IF p # id THEN s
  ELSE IF s.players[p].wait = "waiting"
    THEN [s EXCEPT !.players[p].wait = "sleeping"]
    ELSE s

iovStop_noGuard(s, caller) ==
  IF s.isDestroyComplete THEN [s |-> s, outcome |-> "Destroyed"]
  ELSE [s |-> [collectionRemoveAll(s) EXCEPT !.isStopping = TRUE, !.stopFor = caller],
        outcome |-> "awaiting"]

\* stop() up to `await this.iovPlayerCollection.removeAll()`; caller is who
\* awaits it
iovStop(s, caller) ==
  IF s.isDestroyComplete THEN [s |-> s, outcome |-> "Destroyed"]
  ELSE IF s.isStopping THEN [s |-> s, outcome |-> "resolved"]
  ELSE [s |-> [collectionRemoveAll(s) EXCEPT !.isStopping = TRUE, !.stopFor = caller],
        outcome |-> "awaiting"]

iovRestartAfterStop_onlyStops(s) == [s |-> s, outcome |-> "returned", p |-> 0]

\* restart() after its `await this.stop()`, whose error it swallows
iovRestartAfterStop(s) == iovChangeSrc(s, s.streamConfiguration)

\* restart() up to its first await that suspends; stop is how its stop() ended
iovRestart(s) ==
  IF s.isDestroyed THEN [s |-> s, outcome |-> "Destroyed", p |-> 0, stop |-> "none"]
  ELSE LET T == iovStop(s, "restart") IN
       IF T.outcome = "awaiting"
         THEN [s |-> T.s, outcome |-> "awaiting", p |-> 0, stop |-> "awaiting"]
         ELSE LET C == iovRestartAfterStop(T.s) IN
              [s |-> C.s, outcome |-> C.outcome, p |-> C.p, stop |-> T.outcome]

iovDestroyAfterStop_reopens(s) ==
  [s EXCEPT !.destroyPhase = "collection", !.isDestroyed = FALSE]

\* _destroy after its `await this.stop()`: iovPlayerCollection.destroy() is called
iovDestroyAfterStop(s) == [s EXCEPT !.destroyPhase = "collection"]

\* destroy(): a second call resolves at once; the first sets isDestroyed and
\* runs _destroy up to its first await that suspends
iovDestroyRun(s) ==
  IF s.isDestroyed THEN s
  ELSE LET s1 == [s EXCEPT !.isDestroyed = TRUE, !.listening = FALSE]
           T == iovStop(s1, "destroy")
       IN IF T.outcome = "awaiting"
            THEN [T.s EXCEPT !.destroyPhase = "stopping"]
            ELSE iovDestroyAfterStop(T.s)

iovDestroyEnds_throws(s, ok) ==
  IF ~ok THEN [s EXCEPT !.destroyPhase = "failed"]
  ELSE [collectionDestroySettles(s)
          EXCEPT !.streamConfiguration = Undefined,
                 !.elements = FALSE, !.events = FALSE,
                 !.isDestroyComplete = TRUE, !.destroyPhase = "complete"]

\* _destroy from the end of iovPlayerCollection.destroy() to its end, and the
\* end of destroy(); an error of iovPlayerCollection.destroy() is caught
iovDestroyEnds(s, ok) ==
  [(IF ok THEN collectionDestroySettles(s) ELSE s)
     EXCEPT !.streamConfiguration = Undefined,
            !.elements = FALSE, !.events = FALSE,
            !.isDestroyComplete = TRUE, !.destroyPhase = "complete"]

\* players a run still to come may create
ReservedPlayers == IF session.stopFor = "restart" THEN 1 ELSE 0
RoomForPlayer == Len(session.players) + ReservedPlayers < MaxPlayers

Step(s) ==
  /\ session' = s
  /\ UNCHANGED << registryVars, emitter, dom >>

\* iov.changeSrc(url) by a caller
IovChangeSrc(url) ==
  /\ RoomForPlayer
  /\ LET C == iovChangeSrc(session, url) IN
       Step([C.s EXCEPT !.last =
               [Called(session, C.s, "changeSrc", C.outcome, C.p) EXCEPT !.arg = url]])

\* `await this.iovPlayerCollection.create(...)` ends: with the id, and the
\* listener is registered, or by throwing, and changeSrc throws; it throws
\* when the player was destroyed meanwhile
CreateReturns(p, ok) ==
  /\ session.players[p].wait = "creating"
  /\ ok => session.players[p].alive # "dead"
  /\ LET s == [session EXCEPT !.players[p].wait = IF ok THEN "waiting" ELSE "rejected"]
     IN Step([s EXCEPT !.last = Called(session, s, "changeSrcSettles",
                                        IF ok THEN "awaiting" ELSE "rejected", p)])

\* player id emits FIRST_FRAME_SHOWN: the collection's handoff, then the
\* listeners of all changeSrc calls that wait
FirstFrameShown(id) ==
  /\ session.players[id].alive \in {"live", "retiring"}
  /\ session.players[id].wait # "creating"
  /\ session.destroyPhase # "complete"
  /\ LET RECURSIVE deliver(_, _)
         deliver(s, p) == IF p > Len(s.players) THEN s
                          ELSE deliver(firstFrameListener(s, p, id), p + 1)
         s2 == deliver(collectionHandoff(session, id), 1)
     IN Step([s2 EXCEPT !.last = Called(session, s2, "firstFrameShown", "done", id)])

\* sleepSeconds(this.SHOW_NEXT_VIDEO_DELAY) ends in the listener of player p
SleepEnds(p) ==
  /\ session.players[p].wait = "sleeping"
  /\ LET outcome == IF session.isDestroyed THEN "rejected" ELSE "resolved"
         s == [session EXCEPT !.players[p].wait = outcome]
     IN Step([s EXCEPT !.last = Called(session, s, "changeSrcSettles", outcome, p)])

\* the collection destroys a player it had scheduled for destruction
Retire(p) ==
  /\ session.players[p].alive = "retiring"
  /\ LET s == [session EXCEPT !.players[p].alive = "dead"]
     IN Step([s EXCEPT !.last = NoCall])

\* iov.stop() by a caller
IovStop ==
  LET T == iovStop(session, "stop") IN
  Step([T.s EXCEPT !.last = Called(session, T.s, "stop", T.outcome, 0)])

\* the record of a restart() that made s0 into R.s
Restarted(s0, R, op) ==
  [Called(s0, R.s, op, R.outcome, R.p) EXCEPT !.stop = R.stop]

\* iov.restart() by a caller
IovRestart ==
  /\ RoomForPlayer
  /\ LET R == iovRestart(session) IN
       Step([R.s EXCEPT !.last = Restarted(session, R, "restart")])

\* removeAll() settles and stop() ends; restart() or _destroy go on
RemoveAllSettles(ok) ==
  /\ session.stopFor # "none"
  /\ LET s0 == [collectionRemoveAllSettles(session, ok)
                  EXCEPT !.isStopping = FALSE, !.stopFor = "none"]
         outcome == IF ok THEN "resolved" ELSE "rejected"
     IN CASE session.stopFor = "stop" ->
               Step([s0 EXCEPT !.last = Called(session, s0, "stopSettles", outcome, 0)])
          [] session.stopFor = "restart" ->
               LET C == iovRestartAfterStop(s0) IN
               Step([C.s EXCEPT !.last =
                       [Called(session, C.s, "restartResumes", C.outcome, C.p)
                          EXCEPT !.stop = outcome]])
          [] session.stopFor = "destroy" ->
               LET s1 == iovDestroyAfterStop(s0) IN
               Step([s1 EXCEPT !.last = Called(session, s1, "destroyResumes", "awaiting", 0)])

\* the document becomes hidden or visible; onVisibilityChange runs while it
\* is registered
VisibilityChange ==
  LET s0 == [session EXCEPT !.hidden = ~@] IN
  IF ~session.listening THEN Step([s0 EXCEPT !.last = NoCall])
  ELSE IF s0.hidden
    THEN LET T == iovStop(s0, "stop") IN
         Step([T.s EXCEPT !.last =
                 [Called(s0, T.s, "stop", T.outcome, 0) EXCEPT !.event = "hidden"]])
    ELSE /\ RoomForPlayer
         /\ LET R == iovRestart(s0) IN
              Step([R.s EXCEPT !.last =
                      [Restarted(s0, R, "restart") EXCEPT !.event = "visible"]])

\* an online or offline event; onConnectionChange runs while it is registered
ConnectionChange(onLine) ==
  /\ session.listening
  /\ IF ~onLine
       THEN LET T == iovStop(session, "stop") IN
            Step([T.s EXCEPT !.last =
                    [Called(session, T.s, "stop", T.outcome, 0) EXCEPT !.event = "offline"]])
       ELSE /\ RoomForPlayer
            /\ LET R == iovRestart(session) IN
                 Step([R.s EXCEPT !.last =
                         [Restarted(session, R, "restart") EXCEPT !.event = "online"]])

\* iov.destroy() by a caller (or by the registry's remove)
IovDestroy ==
  LET s == iovDestroyRun(session) IN
  Step([s EXCEPT !.last = Called(session, s, "destroy",
                                 IF session.isDestroyed THEN "resolved" ELSE "awaiting", 0)])

\* iovPlayerCollection.destroy() settles and destroy() runs to its end
IovDestroyEnds(ok) ==
  /\ session.destroyPhase = "collection"
  /\ LET s == iovDestroyEnds(session, ok) IN
       Step([s EXCEPT !.last = Called(session, s, "destroyResumes", "resolved", 0)])

NextIov ==
  \/ \E url \in Urls \cup {Undefined} : IovChangeSrc(url)
  \/ \E p \in 1..Len(session.players), ok \in BOOLEAN : CreateReturns(p, ok)
  \/ \E id \in 1..Len(session.players) : FirstFrameShown(id)
  \/ \E p \in 1..Len(session.players) : SleepEnds(p)
  \/ \E p \in 1..Len(session.players) : Retire(p)
  \/ IovStop
  \/ IovRestart
  \/ \E ok \in BOOLEAN : RemoveAllSettles(ok)
  \/ VisibilityChange
  \/ \E onLine \in BOOLEAN : ConnectionChange(onLine)
  \/ IovDestroy
  \/ \E ok \in BOOLEAN : IovDestroyEnds(ok)

SpecIov == InitIov /\ [][NextIov]_vars

\* every await of the session ends, each on its own: create and sleepSeconds
\* in the changeSrc call of player p, the scheduled destruction of player p,
\* removeAll, and the collection's destroy; whether a player ever shows a
\* frame is up to the stream
CallSettles(p) ==
  /\ p <= Len(session.players)
  /\ \/ \E ok \in BOOLEAN : CreateReturns(p, ok)
     \/ SleepEnds(p)

Retires(p) == p <= Len(session.players) /\ Retire(p)

RemoveAllEnds == \E ok \in BOOLEAN : RemoveAllSettles(ok)

CollectionDestroyEnds == \E ok \in BOOLEAN : IovDestroyEnds(ok)

SpecIovFair ==
  /\ SpecIov
  /\ \A p \in 1..MaxPlayers : WF_vars(CallSettles(p)) /\ WF_vars(Retires(p))
  /\ WF_vars(RemoveAllEnds)
  /\ WF_vars(CollectionDestroyEnds)

\* ---------------------------------------------- one EventEmitter on its own
\* SpecEmitter: an emitter of a class whose static events are Iov.events,
\* under on(eventName, handler) and _destroy.
MaxListeners == 2

\* names a caller passes to on: the declared ones, undefined, the name of a
\* key that Iov.events lacks, and a name no class declares
EventNames ==
  {IovEvents[k] : k \in DOMAIN IovEvents} \cup {Undefined, "RETRY_ERROR", "bogus"}

Handlers == {"handler1", "handler2", Undefined}

NewEmitter ==
  [ listeners |-> << >>,   \* the listeners of this.events, in registration order
    events |-> "emitter",  \* this.events: the EventEmitter3, or "null"
    last |-> [op |-> "none", outcome |-> "none", eventName |-> Undefined,
              handler |-> Undefined] ]

InitEmitter ==
  /\ InitRegistry
  /\ session = "idle"
  /\ emitter = NewEmitter
  /\ dom = "idle"

emitterOn_registersFirst(e, eventName, handler) ==
  LET e1 == [e EXCEPT !.listeners = Append(@, << eventName, handler >>)] IN
  IF ~onAccepts(eventName) THEN [e |-> e1, outcome |-> "UnknownEvent"]
  ELSE IF handler = Undefined THEN [e |-> e1, outcome |-> "MissingHandler"]
  ELSE IF e.events = "null" THEN [e |-> e, outcome |-> "TypeError"]
  ELSE [e |-> e1, outcome |-> "returned"]

\* on(eventName, handler)
emitterOn(e, eventName, handler) ==
  IF ~onAccepts(eventName) THEN [e |-> e, outcome |-> "UnknownEvent"]
  ELSE IF handler = Undefined THEN [e |-> e, outcome |-> "MissingHandler"]
  ELSE IF e.events = "null" THEN [e |-> e, outcome |-> "TypeError"]
  ELSE [e |-> [e EXCEPT !.listeners = Append(@, << eventName, handler >>)],
        outcome |-> "returned"]

StepEmitter(e) ==
  /\ emitter' = e
  /\ UNCHANGED << registryVars, session, dom >>

EmitterOn(eventName, handler) ==
  /\ Len(emitter.listeners) < MaxListeners
  /\ LET R == emitterOn(emitter, eventName, handler) IN
       StepEmitter([R.e EXCEPT !.last = [op |-> "on", outcome |-> R.outcome,
                                         eventName |-> eventName, handler |-> handler]])

\* _destroy: removeAllListeners, this.events = null
EmitterDestroy ==
  /\ emitter.events # "null"
  /\ StepEmitter([emitter EXCEPT !.listeners = << >>, !.events = "null",
                                 !.last = [op |-> "destroy", outcome |-> "returned",
                                           eventName |-> Undefined, handler |-> Undefined]])

NextEmitter ==
  \/ \E eventName \in EventNames, handler \in Handlers : EmitterOn(eventName, handler)
  \/ EmitterDestroy

SpecEmitter == InitEmitter /\ [][NextEmitter]_vars

\* ------------------------------------------- the elements of one Iov alone
\* SpecElements: #initializeElements in the constructor and
\* #uninitializeElements in _destroy, for every combination of the four
\* inputs.  An id is not given, resolves ("found") or does not ("missing");
\* the video element is not given, or is given with or without a parent
\* node; the container element is given or not.
ElementInputs ==
  [ videoElementId : {Undefined, "found", "missing"},
    videoElement : {Undefined, "attached", "detached"},
    containerElementId : {Undefined, "found", "missing"},
    containerElement : {Undefined, "given"} ]

\* document.getElementById(id): the element, or null
getElementById(kind, id) == IF id = "found" THEN << kind, "byId" >> ELSE Undefined

\* the element a caller passes
GivenElement(kind, given) == IF given = Undefined THEN Undefined ELSE << kind, "given" >>

\* parentNode of a video element before the Iov is constructed
ParentBefore(in, video) ==
  IF video = << "video", "byId" >> THEN << "parent", "byId" >>
  ELSE IF video = << "video", "given" >> /\ in.videoElement = "attached"
    THEN << "parent", "given" >>
  ELSE Undefined

NewDom(in) ==
  [ in |-> in, phase |-> "new", error |-> "none",
    shouldRetainVideoElement |-> FALSE,
    containerElement |-> Undefined, videoElement |-> Undefined,
    video |-> Undefined,    \* the video element the Iov used, kept for inspection
    parentNode |-> Undefined, \* the parentNode of that element
    removed |-> FALSE,      \* removeChild and remove() were called on it
    marked |-> {} ]         \* the elements that carry a marker class

InitElements ==
  /\ InitRegistry
  /\ session = "idle"
  /\ emitter = "idle"
  /\ \E in \in ElementInputs : dom = NewDom(in)

\* #initializeElements(config)
initializeElements(d) ==
  LET in == d.in
      containerElement == IF in.containerElementId # Undefined
                            THEN getElementById("container", in.containerElementId)
                            ELSE GivenElement("container", in.containerElement)
      retain == in.videoElementId # Undefined \/ in.videoElement # Undefined
      videoElement == IF in.videoElementId # Undefined
                        THEN getElementById("video", in.videoElementId)
                        ELSE GivenElement("video", in.videoElement)
      d1 == [d EXCEPT !.containerElement = containerElement,
                      !.shouldRetainVideoElement = retain,
                      !.videoElement = videoElement]
      failed(x, e) == [x EXCEPT !.phase = "failed", !.error = e]
  IN IF retain /\ videoElement = Undefined THEN failed(d1, "NoVideoElement")
     ELSE IF videoElement = Undefined /\ containerElement = Undefined
       THEN failed(d1, "NoElement")
     ELSE LET created == videoElement = Undefined
              video == IF created THEN << "video", "created" >> ELSE videoElement
              parent == IF created THEN containerElement ELSE ParentBefore(in, video)
              container == IF containerElement = Undefined THEN parent ELSE containerElement
              d2 == [d1 EXCEPT !.videoElement = video, !.video = video,
                               !.parentNode = parent, !.containerElement = container]
          IN IF container = Undefined THEN failed(d2, "NoContainer")
             ELSE [d2 EXCEPT !.phase = "constructed", !.marked = {container, video}]

uninitializeElements_alwaysRemoves(d) ==
  [d EXCEPT !.phase = "destroyed",
            !.marked = @ \ {d.containerElement, d.videoElement},
            !.parentNode = Undefined, !.removed = TRUE,
            !.videoElement = Undefined, !.containerElement = Undefined]

\* #uninitializeElements()
uninitializeElements(d) ==
  [d EXCEPT !.phase = "destroyed",
            !.marked = @ \ {d.containerElement, d.videoElement},
            !.parentNode = IF ~d.shouldRetainVideoElement THEN Undefined ELSE @,
            !.removed = ~d.shouldRetainVideoElement,
            !.videoElement = Undefined, !.containerElement = Undefined]

StepDom(d) ==
  /\ dom' = d
  /\ UNCHANGED << registryVars, session, emitter >>

\* new Iov(logId, id, config), as far as the elements go
InitializeElements ==
  /\ dom.phase = "new"
  /\ StepDom(initializeElements(dom))

\* _destroy, as far as the elements go
UninitializeElements ==
  /\ dom.phase = "constructed"
  /\ StepDom(uninitializeElements(dom))

NextElements ==
  \/ InitializeElements
  \/ UninitializeElements

SpecElements == InitElements /\ [][NextElements]_vars

\* ------------------------------------------------------------------ claims
\* has(id) and get(id) as a caller sees them now
Has(id) == has(Cur, id)
Get(id) == get(Cur, id)

\* C1: on a registry that has not been destroyed, create(config) with a valid
\* surface config returns a session whose id create never issued before, with
\* a handler registered on it for each of the four fatal events, and right
\* after the return has(id) is true and get(id) is that session.
C1_CreateSucceeds ==
  (last.op = "create" /\ last.valid /\ ~last.registryDestroyed)
    => /\ last.outcome = "returned"
       /\ last.obj # 0
       /\ \A i \in 1..Len(HandlerKeys) : HandlerKeys[i] \in objs[last.obj].listeners
       /\ \A o \in 1..Len(objs) :
            (o # last.obj /\ objs[o].origin = "create") => objs[o].id # objs[last.obj].id
       /\ Has(objs[last.obj].id)
       /\ Get(objs[last.obj].id) = last.obj

\* C2: each id is bound to at most one session ever: once a remove(id) has
\* taken the session out (its destroy() was called), has(id) is false, get(id)
\* is null and the sessions map has no entry for id, whatever create or add
\* is called later.
C2_IdNeverReused ==
  /\ \A o \in 1..Len(objs) :
       objs[o].isDestroyed
         => (~Has(objs[o].id) /\ Get(objs[o].id) = 0 /\ iovs[objs[o].id] = 0)
  /\ \A o1, o2 \in 1..Len(objs) :
       (objs[o1].registered /\ objs[o2].registered /\ objs[o1].id = objs[o2].id)
         => o1 = o2

\* C3: no id is at once a key of the sessions map and a member of
\* pendingRemoval.
C3_SessionsAndPendingDisjoint ==
  \A id \in Ids : ~(iovs[id] # 0 /\ id \in pendingRemoval)

\* C4: remove(id) for an id that is not present (never created, already
\* removed, pending removal) resolves and writes neither the sessions map nor
\* pendingRemoval, and no remove calls destroy() on a session whose destroy()
\* was called before.
C4_RemoveIdempotent ==
  last.op = "remove"
    => /\ ~last.present => (last.outcome = "resolved" /\ ~last.changed)
       /\ ~last.again

\* C5: a remove(id) that found its session and awaited the session's
\* destroy() never rejects, whether destroy() threw or not and whatever ran
\* meanwhile, and when it has settled the id is not in pendingRemoval.
C5_RemoveNeverRejects ==
  (last.op = "remove" /\ last.present /\ last.outcome # "awaiting")
    => (last.outcome = "resolved" /\ last.id \notin pendingRemoval)

\* C6: when a call of destroy() returns, isDestroyComplete is true and every
\* session that was ever registered has had its destroy() run to completion.
C6_DestroyReturnsComplete ==
  (last.op = "destroy" /\ last.outcome = "returned")
    => (last.complete /\ isDestroyComplete /\ last.allDestroyed)

\* C7: after destroy() has been called, create(config) fails with
\* AlreadyDestroyed and has no effect: no session is constructed (so no
\* listener is registered) and none is added to the registry.
C7_CreateAfterDestroyFails ==
  (last.op = "create" /\ last.valid /\ last.registryDestroyed)
    => (last.outcome = "AlreadyDestroyed" /\ last.obj = 0)

Pending(p) == p <= Len(session.players) /\ session.players[p].wait \in {"creating", "waiting", "sleeping"}
Settled(p) == p <= Len(session.players) /\ session.players[p].wait \in {"resolved", "rejected"}

\* C11: once isDestroyed is true, every call of changeSrc, stop or restart
\* fails with an error and leaves the session as it was.
C11_DestroyedRejects ==
  (session.isDestroyed /\ session.last.op \in {"changeSrc", "stop", "restart"})
    => (session.last.outcome = "Destroyed" /\ ~session.last.changed)

\* C12: the changeSrc call that created player p leaves its wait only by a
\* FIRST_FRAME_SHOWN whose id is p, and resolves only after that; a
\* FIRST_FRAME_SHOWN with another id neither resolves nor rejects it.
C12_OwnFirstFrameOnly ==
  [][\A p \in 1..Len(session.players) :
       /\ (session.players[p].wait = "waiting" /\ session'.players[p].wait # "waiting")
            => /\ session'.last.op = "firstFrameShown"
               /\ session'.last.p = p
               /\ session'.players[p].wait = "sleeping"
       /\ (session.players[p].wait # "resolved" /\ session'.players[p].wait = "resolved")
            => session.players[p].wait = "sleeping"
       /\ (session'.last.op = "firstFrameShown" /\ session'.last.p # p)
            => session'.players[p].wait = session.players[p].wait]_vars

\* a first frame of one player was delivered while the call of another waits on
C12_OtherCallWaitsOn ==
  /\ session.last.op = "firstFrameShown"
  /\ session.players[session.last.p].wait = "sleeping"
  /\ \E q \in 1..Len(session.players) :
       q # session.last.p /\ session.players[q].wait = "waiting"

\* C13: a changeSrc call that is followed by another changeSrc before its
\* player's first frame never resolves: while a later player exists, the
\* listener of the earlier call accepts no first frame (accepting one is what
\* resolves it); and once the later call has resolved and the handoff is over
\* one player is alive.
C13_FirstCallNeverResolves ==
  [][\A p \in 1..Len(session.players) :
       (session.players[p].wait = "waiting" /\ Len(session.players) > p)
         => session'.players[p].wait \in {"waiting", "rejected"}]_vars

\* C14: changeSrc(target) with a target, on a session that is not destroyed,
\* while the document is hidden, returns, creates no player, registers no
\* wait, and sets streamConfiguration to the target.
C14_HiddenChangeSrc ==
  [][(/\ session'.last.op = "changeSrc"
      /\ session'.last.arg # Undefined
      /\ session.hidden
      /\ ~session.isDestroyed)
       => /\ session'.last.outcome = "returned"
          /\ session'.players = session.players
          /\ session'.streamConfiguration = toStreamConfiguration(session'.last.arg)]_vars

\* changeSrc has returned on a hidden document and has changed the target
C14_HiddenChangeSrcReturned ==
  /\ session.last.op = "changeSrc"
  /\ session.last.outcome = "returned"
  /\ session.last.changed
  /\ session.hidden
  /\ ~session.isDestroyed
  /\ session.streamConfiguration = toStreamConfiguration(session.last.arg)

\* C15: on a session that is not destroyed completely, a stop() called while
\* a stop() is in flight resolves and starts no teardown; a stop() called
\* while none is in flight starts one; and when the stop() in flight settles,
\* with or without an error, none is in flight.
C15_StopIdempotent ==
  [][/\ (session'.last.op = "stop" /\ ~session.isDestroyComplete)
          => IF session.isStopping
               THEN /\ session'.last.outcome = "resolved"
                    /\ session'.players = session.players
                    /\ session'.stopFor = session.stopFor
                    /\ session'.isStopping
               ELSE /\ session'.last.outcome = "awaiting"
                    /\ session'.stopFor # "none"
                    /\ session'.isStopping
     /\ (session.stopFor # "none" /\ session'.stopFor = "none") => ~session'.isStopping
     /\ session'.isStopping <=> session'.stopFor # "none"]_vars

\* a stop() called while another is in flight has returned
C15_OverlappingStopReturned ==
  /\ session.last.op = "stop"
  /\ session.last.outcome = "resolved"
  /\ session.isStopping
  /\ LivePlayers(session) # {}

\* C16: when a call of stop() returns successfully the session has no live
\* player.
C16_StopLeavesNoPlayer ==
  (session.last.op \in {"stop", "stopSettles"} /\ session.last.outcome = "resolved")
    => LivePlayers(session) = {}

\* C17: the session has at most 2 live players, and when it has 2 they are
\* the newest player and the one before it.
C17_AtMostTwoPlayers ==
  /\ Cardinality(LivePlayers(session)) <= 2
  /\ Cardinality(LivePlayers(session)) = 2
       => LivePlayers(session) = {Len(session.players) - 1, Len(session.players)}

\* C18: a changeSrc call that is in flight when the session is destroyed
\* settles in the end.
C18_InFlightSettles ==
  \A p \in 1..MaxPlayers : (session.isDestroyed /\ Pending(p)) ~> Settled(p)

\* C19: on(eventName, handler) registers the handler only when eventName is a
\* declared event name and a handler is given; an undeclared name (undefined
\* too) fails with UnknownEvent, a declared name without a handler fails with
\* MissingHandler, and a call that fails leaves the listeners as they were.
C19_OnRegistersDeclaredOnly ==
  [][emitter'.last.op = "on" =>
       LET eventName == emitter'.last.eventName
           handler == emitter'.last.handler
           declared == \E k \in DOMAIN IovEvents : IovEvents[k] = eventName
       IN /\ emitter'.listeners # emitter.listeners
               => /\ declared
                  /\ handler # Undefined
                  /\ emitter'.listeners = Append(emitter.listeners, << eventName, handler >>)
          /\ ~declared => emitter'.last.outcome = "UnknownEvent"
          /\ (declared /\ handler = Undefined) => emitter'.last.outcome = "MissingHandler"
          /\ emitter'.last.outcome # "returned" => emitter'.listeners = emitter.listeners]_vars

\* on(undefined, handler) has failed on an emitter that has a listener
C19_UndefinedNameRejected ==
  /\ emitter.last.op = "on"
  /\ emitter.last.outcome = "UnknownEvent"
  /\ emitter.last.eventName = Undefined
  /\ emitter.last.handler # Undefined
  /\ Len(emitter.listeners) = 1

\* C20: for every combination of the four inputs, shouldRetainVideoElement is
\* true exactly when videoElementId or videoElement was given; construction
\* fails when neither a container nor a video element is given or found; and
\* after destroy the video element is out of its container exactly when the
\* Iov created it, while a caller's element keeps its parent and neither
\* element carries a marker class.
C20_Elements ==
  LET in == dom.in
      given == in.videoElementId # Undefined \/ in.videoElement # Undefined
      nothing == /\ in.videoElementId # "found" /\ in.videoElement = Undefined
                 /\ in.containerElementId # "found" /\ in.containerElement = Undefined
  IN /\ dom.phase # "new" => (dom.shouldRetainVideoElement <=> given)
     /\ (dom.phase # "new" /\ nothing) => dom.phase = "failed"
     /\ dom.phase = "constructed"
          => /\ dom.video # Undefined
             /\ dom.marked = {dom.containerElement, dom.videoElement}
     /\ dom.phase = "destroyed"
          => /\ dom.marked = {}
             /\ dom.removed <=> (dom.video = << "video", "created" >>)
             /\ dom.removed => dom.parentNode = Undefined
             /\ ~dom.removed => dom.parentNode = ParentBefore(in, dom.video)

\* an Iov made with videoElementId and containerElement has been destroyed
C20_RetainedAfterDestroy ==
  /\ dom.phase = "destroyed"
  /\ dom.in.videoElementId = "found"
  /\ dom.in.containerElement = "given"
  /\ dom.shouldRetainVideoElement
  /\ ~dom.removed
  /\ dom.parentNode # Undefined

\* C21: when onConnectionChange runs for an online event, restart() does not
\* begin in the run of the handler that the event starts: a wait of
\* CONNECTION_CHANGE_PLAY_DELAY comes first; when it runs for an offline
\* event it calls stop() and begins no restart.
C21_OnlineWaitsThenRestarts ==
  /\ session.last.event = "online" => session.last.op # "restart"
  /\ session.last.event = "offline" => session.last.op = "stop"

\* C22: restart() on a session that is not destroyed leaves
\* streamConfiguration as it is; while its stop() is in flight it has called
\* no changeSrc; once its stop() has ended, resolved or rejected alike, it
\* calls changeSrc with the streamConfiguration of that moment and, unless
\* the session was destroyed meanwhile, ends as that changeSrc does: it
\* rejects when there is none, returns on a hidden document, and otherwise
\* creates a player and waits for it.  The visibility handler stops on hidden and restarts
\* on visible, and neither changes streamConfiguration.
C22_Restart ==
  [][LET s == session
         t == session'
         l == session'.last
     IN /\ (l.op \in {"restart", "restartResumes"} /\ l.outcome # "Destroyed")
             => /\ t.streamConfiguration = s.streamConfiguration
                /\ l.stop \in {"awaiting", "resolved", "rejected"}
                /\ l.stop = "awaiting"
                     => /\ l.outcome = "awaiting" /\ l.p = 0
                        /\ Len(t.players) = Len(s.players)
                        /\ t.stopFor = "restart"
                /\ (l.stop \in {"resolved", "rejected"} /\ ~s.isDestroyed)
                     => IF s.streamConfiguration = Undefined
                          THEN l.outcome = "MissingUrl" /\ Len(t.players) = Len(s.players)
                        ELSE IF t.hidden
                          THEN l.outcome = "returned" /\ Len(t.players) = Len(s.players)
                        ELSE /\ l.outcome = "awaiting"
                             /\ l.p = Len(t.players)
                             /\ t.players = Append(SubSeq(t.players, 1, Len(s.players)), NewPlayer)
        /\ l.event = "hidden"
             => l.op = "stop" /\ t.streamConfiguration = s.streamConfiguration
        /\ l.event = "visible"
             => l.op = "restart" /\ t.streamConfiguration = s.streamConfiguration]_vars

\* restart() has gone on after its stop() failed, and has created a player
\* for the streamConfiguration the session had
C22_RestartAfterFailedStop ==
  /\ session.last.op = "restartResumes"
  /\ session.last.stop = "rejected"
  /\ session.last.outcome = "awaiting"
  /\ session.last.p = Len(session.players)
  /\ session.streamConfiguration = fromUrl("urlA")
  /\ ~session.isDestroyed

\* C23 as stated: isStopping, isDestroyed and isDestroyComplete never go from
\* true to false.
C23_FlagsMonotonic ==
  [][/\ session.isStopping => session'.isStopping
     /\ session.isDestroyed => session'.isDestroyed
     /\ session.isDestroyComplete => session'.isDestroyComplete]_vars

\* C23: isDestroyed and isDestroyComplete never go from true to false, and
\* isDestroyComplete is true only on a destroyed session; isStopping goes
\* from true to false when the removeAll() that a stop() awaits settles, and
\* at no other step.
C23_DestroyFlagsMonotonic ==
  [][/\ session.isDestroyed => session'.isDestroyed
     /\ session.isDestroyComplete => session'.isDestroyComplete
     /\ session'.isDestroyComplete => session'.isDestroyed
     /\ (session.isStopping /\ ~session'.isStopping)
          <=> (session.stopFor # "none" /\ session'.stopFor = "none")
     /\ (session.isStopping /\ ~session'.isStopping)
          => session'.last.op \in {"stopSettles", "restartResumes", "destroyResumes"}]_vars

\* a stop() has settled on a session that is destroyed completely: isStopping
\* is false again, the two flags of destruction are still true
C23_StoppingCleared ==
  /\ session.last.op = "stopSettles"
  /\ ~session.isStopping
  /\ session.isDestroyed
  /\ session.isDestroyComplete

\* C24: a destruction that has begun ends, whether or not stop() or the
\* collection's destroy() throw; at its end streamConfiguration is cleared,
\* the elements are uninitialized and the listeners of the emitter removed;
\* from its beginning the document and window listeners are unregistered and
\* no environment event runs a handler.
C24_DestroyCompletes ==
  /\ session.isDestroyed ~> session.isDestroyComplete
  /\ [](session.isDestroyComplete
          => /\ session.destroyPhase = "complete"
             /\ session.streamConfiguration = Undefined
             /\ ~session.elements
             /\ ~session.events)
  /\ [](session.isDestroyed
          => /\ ~session.listening
             /\ session.last.event = "none")

\* destruction is complete although iovPlayerCollection.destroy() threw and
\* left a player alive
C24_CompleteAfterFailedDestroy ==
  /\ session.isDestroyComplete
  /\ LivePlayers(session) # {}
  /\ session.streamConfiguration = Undefined
  /\ ~session.elements
  /\ ~session.events

====
